---- MODULE Spec2Model ----
(***************************************************************************)
(* Feature-engineering layer of the EPL analytics dashboard                *)
(* (src/src/features.py): standings, form, momentum, head-to-head, team    *)
(* statistics and the weighted win-probability estimate, as pure functions *)
(* of a match table (the pandas DataFrame df).                             *)
(*                                                                         *)
(* Numbers with decimals are kept as scaled integers: a value rounded to   *)
(* 1 decimal is held in tenths, a value rounded to 2 decimals in           *)
(* hundredths.  Strings of result letters are sequences of one-letter      *)
(* strings.  A Python dict is a function from its keys to its values, so   *)
(* that a missing key is visible (DOMAIN).                                 *)
(***************************************************************************)
EXTENDS Integers, Sequences, FiniteSets, TLC

VARIABLES df, columns, op, args, exc, out

vars == <<df, columns, op, args, exc, out>>

(***************************************************************************)
(* Bounds of the model.                                                    *)
(***************************************************************************)
\* rows of the table on the standings and team-statistics pages
MaxMatches == 3
\* rows of the table on the head-to-head pages
MaxPairMatches == 2

(***************************************************************************)
(* Program constants (src/src/constants.py).                               *)
(***************************************************************************)
RESULT_HOME_WIN == "H"
RESULT_DRAW == "D"
RESULT_AWAY_WIN == "A"
POINTS_WIN == 3
POINTS_DRAW == 1
POINTS_LOSS == 0

(***************************************************************************)
(* Generic helpers.                                                        *)
(***************************************************************************)
RECURSIVE SumSeq(_)
SumSeq(s) == IF s = <<>> THEN 0 ELSE Head(s) + SumSeq(Tail(s))

\* s[col] summed over the rows of a frame: matches[col].sum()
RECURSIVE ColSum(_, _)
ColSum(rows, col) ==
    IF rows = <<>> THEN 0 ELSE Head(rows)[col] + ColSum(Tail(rows), col)

\* len(rows[rows[col] == v])
CountEq(rows, col, v) == Len(SelectSeq(rows, LAMBDA r : r[col] = v))

Min(a, b) == IF a <= b THEN a ELSE b

(***************************************************************************)
(* The match table.  Team names are ordered as Python orders the strings.  *)
(***************************************************************************)
TeamOrder == <<"Arsenal", "Chelsea", "Liverpool", "NonExistentTeam">>

\* Teams that rows of the table may name; NonExistentTeam never plays.
Teams == {"Arsenal", "Chelsea", "Liverpool"}

RequiredColumns ==
    {"Date", "HomeTeam", "AwayTeam", "FTHG", "FTAG", "FTR",
     "HF", "AF", "HC", "AC", "HY", "AY", "HR", "AR", "Referee"}
ShotColumns == {"HS", "AS", "HST", "AST"}
AllColumns == RequiredColumns \cup ShotColumns
\* pd.DataFrame(): no columns, no rows
NoColumns == {}

\* (FTHG, FTAG, FTR) of a fixture
Scores == { <<2, 1, "H">>, <<1, 1, "D">>, <<0, 2, "A">> }

\* shots, shots on target, fouls, corners, yellow and red cards of a fixture
StatLine(hs, as, hst, ast, hf, af, hc, ac, hy, ay, hr, ar) ==
    [HS |-> hs, AS |-> as, HST |-> hst, AST |-> ast, HF |-> hf, AF |-> af,
     HC |-> hc, AC |-> ac, HY |-> hy, AY |-> ay, HR |-> hr, AR |-> ar]

PlainStats == StatLine(15, 10, 6, 3, 10, 9, 5, 3, 1, 2, 0, 0)
StatLines ==
    { PlainStats,
      StatLine(0, 8, 0, 2, 7, 12, 5, 4, 1, 3, 0, 1) }

MatchRow(date, home, away, score, st, ref) ==
    [Date |-> date, HomeTeam |-> home, AwayTeam |-> away,
     FTHG |-> score[1], FTAG |-> score[2], FTR |-> score[3],
     HS |-> st.HS, AS |-> st.AS, HST |-> st.HST, AST |-> st.AST,
     HF |-> st.HF, AF |-> st.AF, HC |-> st.HC, AC |-> st.AC,
     HY |-> st.HY, AY |-> st.AY, HR |-> st.HR, AR |-> st.AR,
     Referee |-> ref]

\* df[df[col] == team]
RowsWhere(rows, col, team) == SelectSeq(rows, LAMBDA r : r[col] = team)

(***************************************************************************)
(* calculate_form_for_team                                                 *)
(***************************************************************************)
HomeLetter(x) ==
    IF x = RESULT_HOME_WIN THEN "W" ELSE IF x = RESULT_DRAW THEN "D" ELSE "L"

AwayLetter(x) ==
    IF x = RESULT_AWAY_WIN THEN "W" ELSE IF x = RESULT_DRAW THEN "D" ELSE "L"

TeamResults_HomeOnly(rows, team) ==
    LET home == RowsWhere(rows, "HomeTeam", team)
    IN  [i \in 1..Len(home) |->
            [Date |-> home[i].Date, TeamResult |-> HomeLetter(home[i].FTR)]]

\* home_matches[[Date, TeamResult]] followed by away_matches[[...]]
TeamResults(rows, team) ==
    LET home == RowsWhere(rows, "HomeTeam", team)
        away == RowsWhere(rows, "AwayTeam", team)
    IN  [i \in 1..Len(home) |->
            [Date |-> home[i].Date, TeamResult |-> HomeLetter(home[i].FTR)]]
        \o
        [i \in 1..Len(away) |->
            [Date |-> away[i].Date, TeamResult |-> AwayLetter(away[i].FTR)]]

RECURSIVE InsertByDateDesc_Ascending(_, _)
InsertByDateDesc_Ascending(r, s) ==
    IF s = <<>> THEN <<r>>
    ELSE IF Head(s).Date <= r.Date
         THEN <<Head(s)>> \o InsertByDateDesc_Ascending(r, Tail(s))
         ELSE <<r>> \o s

\* Insert r into a sequence sorted by Date descending, after the rows whose
\* date is not smaller: sort_values(Date, ascending=False).  For frames of
\* at most 16 rows numpy's default sort is an insertion sort, so rows of
\* equal date keep their order.
RECURSIVE InsertByDateDesc(_, _)
InsertByDateDesc(r, s) ==
    IF s = <<>> THEN <<r>>
    ELSE IF Head(s).Date >= r.Date
         THEN <<Head(s)>> \o InsertByDateDesc(r, Tail(s))
         ELSE <<r>> \o s

SortByDateDesc_AsListed(s) == s

RECURSIVE SortByDateDesc(_)
SortByDateDesc(s) ==
    IF s = <<>> THEN <<>>
    ELSE InsertByDateDesc(s[Len(s)], SortByDateDesc(SubSeq(s, 1, Len(s) - 1)))

calculate_form_for_team(rows, team, num_matches) ==
    LET all_matches == SortByDateDesc(TeamResults(rows, team))
        recent == SubSeq(all_matches, 1, Min(num_matches, Len(all_matches)))
    IN  [i \in 1..Len(recent) |-> recent[i].TeamResult]

(***************************************************************************)
(* calculate_standings                                                     *)
(***************************************************************************)
all_teams_HomeOnly(rows) ==
    SelectSeq(TeamOrder,
              LAMBDA t : \E i \in 1..Len(rows) : rows[i].HomeTeam = t)

\* sorted(set(home_teams) | set(away_teams))
all_teams(rows) ==
    SelectSeq(TeamOrder,
              LAMBDA t : \E i \in 1..Len(rows) :
                            rows[i].HomeTeam = t \/ rows[i].AwayTeam = t)

\* "Home stats" of the loop body: wins, draws, losses and goals of the rows
\* in which the team is the home side.
HomeStats(home_matches) ==
    [wins |-> CountEq(home_matches, "FTR", RESULT_HOME_WIN),
     draws |-> CountEq(home_matches, "FTR", RESULT_DRAW),
     losses |-> CountEq(home_matches, "FTR", RESULT_AWAY_WIN),
     goals_for |-> ColSum(home_matches, "FTHG"),
     goals_against |-> ColSum(home_matches, "FTAG")]

AwayStats_HomeColumns(away_matches) ==
    [wins |-> CountEq(away_matches, "FTR", RESULT_AWAY_WIN),
     draws |-> CountEq(away_matches, "FTR", RESULT_DRAW),
     losses |-> CountEq(away_matches, "FTR", RESULT_HOME_WIN),
     goals_for |-> ColSum(away_matches, "FTHG"),
     goals_against |-> ColSum(away_matches, "FTAG")]

\* "Away stats" of the loop body.
AwayStats(away_matches) ==
    [wins |-> CountEq(away_matches, "FTR", RESULT_AWAY_WIN),
     draws |-> CountEq(away_matches, "FTR", RESULT_DRAW),
     losses |-> CountEq(away_matches, "FTR", RESULT_HOME_WIN),
     goals_for |-> ColSum(away_matches, "FTAG"),
     goals_against |-> ColSum(away_matches, "FTHG")]

Points_DrawsForgotten(wins, draws) == wins * POINTS_WIN

\* points = wins * POINTS_WIN + draws * POINTS_DRAW
Points(wins, draws) == wins * POINTS_WIN + draws * POINTS_DRAW

GoalDiff_Reversed(goals_for, goals_against) == goals_against - goals_for

\* goal_diff = goals_for - goals_against
GoalDiff(goals_for, goals_against) == goals_for - goals_against

\* One entry of standings_data (the body of the loop over all_teams).
StandingsEntry(rows, team) ==
    LET home_matches == RowsWhere(rows, "HomeTeam", team)
        away_matches == RowsWhere(rows, "AwayTeam", team)
        played == Len(home_matches) + Len(away_matches)
        h == HomeStats(home_matches)
        a == AwayStats(away_matches)
        wins == h.wins + a.wins
        draws == h.draws + a.draws
        losses == h.losses + a.losses
        goals_for == h.goals_for + a.goals_for
        goals_against == h.goals_against + a.goals_against
        goal_diff == GoalDiff(goals_for, goals_against)
        points == Points(wins, draws)
    IN  [Team |-> team, P |-> played, W |-> wins, D |-> draws, L |-> losses,
         GF |-> goals_for, GA |-> goals_against, GD |-> goal_diff,
         Pts |-> points, Form |-> calculate_form_for_team(rows, team, 5)]

standings_data(rows) ==
    LET ts == all_teams(rows)
    IN  [i \in 1..Len(ts) |-> StandingsEntry(rows, ts[i])]

RanksAbove_PointsOnly(a, b) == a.Pts > b.Pts

\* a goes before b under by=[Pts, GD, GF], ascending=[False, False, False]
RanksAbove(a, b) ==
    \/ a.Pts > b.Pts
    \/ a.Pts = b.Pts /\ a.GD > b.GD
    \/ a.Pts = b.Pts /\ a.GD = b.GD /\ a.GF > b.GF

RECURSIVE InsertRanked_BeforeEquals(_, _)
InsertRanked_BeforeEquals(r, s) ==
    IF s = <<>> THEN <<r>>
    ELSE IF ~RanksAbove(Head(s), r)
         THEN <<r>> \o s
         ELSE <<Head(s)>> \o InsertRanked_BeforeEquals(r, Tail(s))

\* sort_values on several keys is a lexsort, which is stable: a row is
\* placed after every row it does not rank above.
RECURSIVE InsertRanked(_, _)
InsertRanked(r, s) ==
    IF s = <<>> THEN <<r>>
    ELSE IF RanksAbove(r, Head(s))
         THEN <<r>> \o s
         ELSE <<Head(s)>> \o InsertRanked(r, Tail(s))

RECURSIVE SortStandings(_)
SortStandings(s) ==
    IF s = <<>> THEN <<>>
    ELSE InsertRanked(s[Len(s)], SortStandings(SubSeq(s, 1, Len(s) - 1)))

\* standings_df.insert(0, 'Pos', range(1, len(standings_df) + 1))
InsertPos(s) ==
    [i \in 1..Len(s) |->
        [Pos |-> i, Team |-> s[i].Team, P |-> s[i].P, W |-> s[i].W,
         D |-> s[i].D, L |-> s[i].L, GF |-> s[i].GF, GA |-> s[i].GA,
         GD |-> s[i].GD, Pts |-> s[i].Pts, Form |-> s[i].Form]]

\* The exception calculate_standings ends with, "none" when it returns.
\* df['HomeTeam'] of a frame without that column is a KeyError; a frame
\* built from an empty standings_data has no 'Pts' column to sort by.
StandingsRaises(cols, rows) ==
    IF ~({"HomeTeam", "AwayTeam"} \subseteq cols) THEN "KeyError"
    ELSE IF standings_data(rows) = <<>> THEN "KeyError"
    ELSE "none"

calculate_standings(rows) == InsertPos(SortStandings(standings_data(rows)))

(***************************************************************************)
(* calculate_momentum_score (in hundredths)                                *)
(***************************************************************************)
MomentumWeights_OldestHeaviest == <<80, 100, 110, 130, 150>>

\* [1.5, 1.3, 1.1, 1.0, 0.8], in hundredths
MomentumWeights == <<150, 130, 110, 100, 80>>

ResultPoints(result) ==
    IF result = "W" THEN POINTS_WIN
    ELSE IF result = "D" THEN POINTS_DRAW ELSE POINTS_LOSS

\* weights[i] with i past the end of the list is an IndexError
MomentumRaises(rows, team, num_matches) ==
    IF Len(calculate_form_for_team(rows, team, num_matches)) > Len(MomentumWeights)
    THEN "IndexError" ELSE "none"

calculate_momentum_score(rows, team, num_matches) ==
    LET form == calculate_form_for_team(rows, team, num_matches)
        weights == SubSeq(MomentumWeights, 1, Min(Len(form), Len(MomentumWeights)))
    IN  IF form = <<>> THEN 0
        ELSE SumSeq([i \in 1..Len(form) |-> ResultPoints(form[i]) * weights[i]])

(***************************************************************************)
(* get_head_to_head_stats                                                  *)
(***************************************************************************)
H2HMatches_EitherSide(rows, team_a, team_b) ==
    SelectSeq(rows, LAMBDA r :
        \/ r.HomeTeam = team_a \/ r.AwayTeam = team_b
        \/ r.HomeTeam = team_b \/ r.AwayTeam = team_a)

H2HMatches_FirstAtHome(rows, team_a, team_b) ==
    SelectSeq(rows, LAMBDA r : r.HomeTeam = team_a /\ r.AwayTeam = team_b)

\* the rows between the two teams, in either order
H2HMatches(rows, team_a, team_b) ==
    SelectSeq(rows, LAMBDA r :
        \/ r.HomeTeam = team_a /\ r.AwayTeam = team_b
        \/ r.HomeTeam = team_b /\ r.AwayTeam = team_a)

H2HZero ==
    [total_matches |-> 0, team_a_wins |-> 0, team_b_wins |-> 0, draws |-> 0,
     team_a_goals |-> 0, team_b_goals |-> 0, matches |-> <<>>]

H2HStep_AwayWinOfBLost(acc, match, team_a) ==
    LET is_a_home == match.HomeTeam = team_a
        a_won == \/ match.FTR = RESULT_HOME_WIN /\ is_a_home
                 \/ match.FTR = RESULT_AWAY_WIN /\ ~is_a_home
        b_won == match.FTR = RESULT_HOME_WIN /\ ~is_a_home
        drawn == match.FTR \notin {RESULT_HOME_WIN, RESULT_AWAY_WIN}
    IN  [acc EXCEPT
            !.team_a_wins = @ + (IF a_won THEN 1 ELSE 0),
            !.team_b_wins = @ + (IF b_won THEN 1 ELSE 0),
            !.draws = @ + (IF drawn THEN 1 ELSE 0),
            !.team_a_goals = @ + (IF is_a_home THEN match.FTHG ELSE match.FTAG),
            !.team_b_goals = @ + (IF is_a_home THEN match.FTAG ELSE match.FTHG)]

H2HStep_GoalsByVenue(acc, match, team_a) ==
    LET is_a_home == match.HomeTeam = team_a
        a_won == \/ match.FTR = RESULT_HOME_WIN /\ is_a_home
                 \/ match.FTR = RESULT_AWAY_WIN /\ ~is_a_home
        b_won == \/ match.FTR = RESULT_HOME_WIN /\ ~is_a_home
                 \/ match.FTR = RESULT_AWAY_WIN /\ is_a_home
        drawn == match.FTR \notin {RESULT_HOME_WIN, RESULT_AWAY_WIN}
    IN  [acc EXCEPT
            !.team_a_wins = @ + (IF a_won THEN 1 ELSE 0),
            !.team_b_wins = @ + (IF b_won THEN 1 ELSE 0),
            !.draws = @ + (IF drawn THEN 1 ELSE 0),
            !.team_a_goals = @ + match.FTHG,
            !.team_b_goals = @ + match.FTAG]

\* one pass of the loop over h2h_matches.iterrows()
H2HStep(acc, match, team_a) ==
    LET is_a_home == match.HomeTeam = team_a
        a_won == \/ match.FTR = RESULT_HOME_WIN /\ is_a_home
                 \/ match.FTR = RESULT_AWAY_WIN /\ ~is_a_home
        b_won == \/ match.FTR = RESULT_HOME_WIN /\ ~is_a_home
                 \/ match.FTR = RESULT_AWAY_WIN /\ is_a_home
        drawn == match.FTR \notin {RESULT_HOME_WIN, RESULT_AWAY_WIN}
    IN  [acc EXCEPT
            !.team_a_wins = @ + (IF a_won THEN 1 ELSE 0),
            !.team_b_wins = @ + (IF b_won THEN 1 ELSE 0),
            !.draws = @ + (IF drawn THEN 1 ELSE 0),
            !.team_a_goals = @ + (IF is_a_home THEN match.FTHG ELSE match.FTAG),
            !.team_b_goals = @ + (IF is_a_home THEN match.FTAG ELSE match.FTHG)]

RECURSIVE H2HLoop(_, _, _)
H2HLoop(acc, ms, team_a) ==
    IF ms = <<>> THEN acc
    ELSE H2HLoop(H2HStep(acc, Head(ms), team_a), Tail(ms), team_a)

H2HRaises_SamePairRejected(team_a, team_b) ==
    IF team_a = team_b THEN "ValueError" ELSE "none"

\* get_head_to_head_stats has no raise statement and reads only columns the
\* loaded table has; it does not compare team_a with team_b.
H2HRaises(team_a, team_b) == "none"

get_head_to_head_stats(rows, team_a, team_b) ==
    LET h2h_matches == H2HMatches(rows, team_a, team_b)
    IN  IF Len(h2h_matches) = 0 THEN H2HZero
        ELSE [H2HLoop(H2HZero, h2h_matches, team_a) EXCEPT
                 !.total_matches = Len(h2h_matches),
                 !.matches = h2h_matches]

(***************************************************************************)
(* get_team_stats.  win_rate and shot_accuracy are in tenths, the avg_     *)
(* values in hundredths.                                                   *)
(***************************************************************************)
\* round(n / d) to the nearest integer, a tie going to the even neighbour
\* (Python's round); n >= 0, d > 0.  With d the number of matches (or of
\* shots) a tie needs d to be a multiple of 8.
RoundDiv(n, d) ==
    LET q == n \div d
        r == n % d
    IN  IF 2 * r < d THEN q
        ELSE IF 2 * r > d THEN q + 1
        ELSE IF q % 2 = 0 THEN q ELSE q + 1

\* the column names chosen by the if venue == 'home' / elif venue == 'away'
VenueColumns(venue) ==
    IF venue = "home"
    THEN [team |-> "HomeTeam", goals_for |-> "FTHG", goals_against |-> "FTAG",
          shots |-> "HS", shots_target |-> "HST", fouls |-> "HF",
          corners |-> "HC", yellows |-> "HY", reds |-> "HR",
          win |-> RESULT_HOME_WIN, loss |-> RESULT_AWAY_WIN]
    ELSE [team |-> "AwayTeam", goals_for |-> "FTAG", goals_against |-> "FTHG",
          shots |-> "AS", shots_target |-> "AST", fouls |-> "AF",
          corners |-> "AC", yellows |-> "AY", reds |-> "AR",
          win |-> RESULT_AWAY_WIN, loss |-> RESULT_HOME_WIN]

\* matches[col].sum() if col in matches.columns else 0
OptColSum(cols, rows, col) == IF col \in cols THEN ColSum(rows, col) ELSE 0

\* the dict returned when len(matches) == 0 (home or away)
ZeroVenueStats ==
    [matches_played |-> 0, wins |-> 0, draws |-> 0, losses |-> 0,
     goals_for |-> 0, goals_against |-> 0, goal_difference |-> 0,
     points |-> 0, win_rate |-> 0, clean_sheets |-> 0]

\* the dict returned when total_matches == 0 (venue None)
ZeroAllStats ==
    [matches_played |-> 0, wins |-> 0, draws |-> 0, losses |-> 0,
     goals_for |-> 0, goals_against |-> 0, goal_difference |-> 0,
     points |-> 0, win_rate |-> 0, clean_sheets |-> 0,
     avg_goals_for |-> 0, avg_goals_against |-> 0, avg_shots |-> 0,
     shot_accuracy |-> 0, avg_fouls |-> 0, avg_corners |-> 0,
     total_yellows |-> 0, total_reds |-> 0]

\* get_team_stats(df, team, 'home') and get_team_stats(df, team, 'away')
VenueStats(cols, rows, team, venue) ==
    LET c == VenueColumns(venue)
        matches == RowsWhere(rows, c.team, team)
        n == Len(matches)
        wins == CountEq(matches, "FTR", c.win)
        draws == CountEq(matches, "FTR", RESULT_DRAW)
        losses == CountEq(matches, "FTR", c.loss)
        goals_for == ColSum(matches, c.goals_for)
        goals_against == ColSum(matches, c.goals_against)
        clean_sheets == CountEq(matches, c.goals_against, 0)
        total_shots == OptColSum(cols, matches, c.shots)
        shots_on_target == OptColSum(cols, matches, c.shots_target)
        total_fouls == OptColSum(cols, matches, c.fouls)
        total_corners == OptColSum(cols, matches, c.corners)
        total_yellows == OptColSum(cols, matches, c.yellows)
        total_reds == OptColSum(cols, matches, c.reds)
    IN  IF n = 0 THEN ZeroVenueStats
        ELSE [matches_played |-> n, wins |-> wins, draws |-> draws,
              losses |-> losses, goals_for |-> goals_for,
              goals_against |-> goals_against,
              goal_difference |-> goals_for - goals_against,
              points |-> wins * POINTS_WIN + draws * POINTS_DRAW,
              win_rate |-> RoundDiv(wins * 1000, n),
              clean_sheets |-> clean_sheets,
              avg_goals_for |-> RoundDiv(goals_for * 100, n),
              avg_goals_against |-> RoundDiv(goals_against * 100, n),
              avg_shots |-> RoundDiv(total_shots * 100, n),
              shot_accuracy |->
                  IF total_shots > 0
                  THEN RoundDiv(shots_on_target * 1000, total_shots) ELSE 0,
              avg_fouls |-> RoundDiv(total_fouls * 100, n),
              avg_corners |-> RoundDiv(total_corners * 100, n),
              total_yellows |-> total_yellows, total_reds |-> total_reds,
              total_shots |-> total_shots, shots_on_target |-> shots_on_target,
              total_fouls |-> total_fouls, total_corners |-> total_corners]

\* the keys of home_stats and away_stats the venue=None branch reads
KeysReadByAll ==
    {"wins", "draws", "losses", "goals_for", "goals_against",
     "goal_difference", "points", "clean_sheets", "total_shots",
     "shots_on_target", "total_fouls", "total_corners", "total_yellows",
     "total_reds"}

\* The exception get_team_stats ends with: home_stats['total_shots'] of a
\* dict that has no such key is a KeyError.
TeamStatsRaises(cols, rows, team, venue) ==
    LET home_stats == VenueStats(cols, rows, team, "home")
        away_stats == VenueStats(cols, rows, team, "away")
        total_matches == Len(RowsWhere(rows, "HomeTeam", team))
                           + Len(RowsWhere(rows, "AwayTeam", team))
    IN  IF /\ venue \notin {"home", "away"}
           /\ total_matches # 0
           /\ ~(KeysReadByAll \subseteq (DOMAIN home_stats \cap DOMAIN away_stats))
        THEN "KeyError" ELSE "none"

\* the venue=None branch, when its reads succeed
AllStats(cols, rows, team) ==
    LET h == VenueStats(cols, rows, team, "home")
        a == VenueStats(cols, rows, team, "away")
        total_matches == Len(RowsWhere(rows, "HomeTeam", team))
                           + Len(RowsWhere(rows, "AwayTeam", team))
    IN  IF total_matches = 0 THEN ZeroAllStats
        ELSE [matches_played |-> total_matches,
              wins |-> h.wins + a.wins,
              draws |-> h.draws + a.draws,
              losses |-> h.losses + a.losses,
              goals_for |-> h.goals_for + a.goals_for,
              goals_against |-> h.goals_against + a.goals_against,
              goal_difference |-> h.goal_difference + a.goal_difference,
              points |-> h.points + a.points,
              win_rate |-> RoundDiv((h.wins + a.wins) * 1000, total_matches),
              clean_sheets |-> h.clean_sheets + a.clean_sheets,
              avg_goals_for |->
                  RoundDiv((h.goals_for + a.goals_for) * 100, total_matches),
              avg_goals_against |->
                  RoundDiv((h.goals_against + a.goals_against) * 100, total_matches),
              avg_shots |->
                  RoundDiv((h.total_shots + a.total_shots) * 100, total_matches),
              shot_accuracy |->
                  IF h.total_shots + a.total_shots > 0
                  THEN RoundDiv((h.shots_on_target + a.shots_on_target) * 1000,
                                h.total_shots + a.total_shots)
                  ELSE 0,
              avg_fouls |->
                  RoundDiv((h.total_fouls + a.total_fouls) * 100, total_matches),
              avg_corners |->
                  RoundDiv((h.total_corners + a.total_corners) * 100, total_matches),
              total_yellows |-> h.total_yellows + a.total_yellows,
              total_reds |-> h.total_reds + a.total_reds,
              total_shots |-> h.total_shots + a.total_shots,
              shots_on_target |-> h.shots_on_target + a.shots_on_target,
              total_fouls |-> h.total_fouls + a.total_fouls,
              total_corners |-> h.total_corners + a.total_corners]

\* venue is "home", "away" or "all" (None)
get_team_stats(cols, rows, team, venue) ==
    IF venue \in {"home", "away"}
    THEN VenueStats(cols, rows, team, venue)
    ELSE AllStats(cols, rows, team)

(***************************************************************************)
(* calculate_win_probability.  The floats of the code are kept as exact    *)
(* fractions <<numerator, denominator>>; the returned percentages are in   *)
(* tenths.                                                                 *)
(***************************************************************************)
RECURSIVE GCD(_, _)
GCD(a, b) == IF b = 0 THEN a ELSE GCD(b, a % b)

LCM(a, b) == (a \div GCD(a, b)) * b

Frac(n, d) == LET g == GCD(n, d) IN <<n \div g, d \div g>>

\* k * f for an integer k
FScale(k, f) == Frac(k * f[1], f[2])

FAdd(f, g) ==
    LET l == LCM(f[2], g[2])
    IN  Frac(f[1] * (l \div f[2]) + g[1] * (l \div g[2]), l)

\* standings[standings['Team'] == team]['Pos'].values[0] if ... else 10
PosOf(standings, team) ==
    IF \E i \in 1..Len(standings) : standings[i].Team = team
    THEN standings[CHOOSE i \in 1..Len(standings) : standings[i].Team = team].Pos
    ELSE 10

\* momentum_prob_a, momentum_prob_b
MomentumShare(mine, total_momentum) ==
    IF total_momentum > 0 THEN Frac(mine, total_momentum) ELSE <<1, 2>>

\* h2h_prob_a, h2h_prob_b: (wins + draws * 0.5) / total_matches
H2HShare(wins, draws, total_matches) ==
    IF total_matches > 0 THEN Frac(2 * wins + draws, 2 * total_matches)
    ELSE <<1, 2>>

\* home_adv_a: 0.6, 0.4 or 0.5
HomeAdvantageA(team_a, team_b, home_team) ==
    IF home_team = team_a THEN <<3, 5>>
    ELSE IF home_team = team_b THEN <<2, 5>> ELSE <<1, 2>>

HomeAdvantageB_AlwaysVisitor(team_a, team_b, home_team) ==
    IF home_team = team_a THEN <<2, 5>>
    ELSE IF home_team = team_b THEN <<2, 5>> ELSE <<1, 2>>

\* home_adv_b
HomeAdvantageB(team_a, team_b, home_team) ==
    IF home_team = team_a THEN <<2, 5>>
    ELSE IF home_team = team_b THEN <<3, 5>> ELSE <<1, 2>>

\* standing_prob = 1 / (1 + pos * 0.1)
StandingShare(pos) == Frac(10, 10 + pos)

Blend_FormAndHistorySwapped(momentum_prob, h2h_prob, home_adv, standing_prob) ==
    FAdd(FAdd(FScale(30, momentum_prob), FScale(40, h2h_prob)),
         FAdd(FScale(15, home_adv), FScale(15, standing_prob)))

\* the weighted sum, times 100: weights 0.40, 0.30, 0.15, 0.15
Blend(momentum_prob, h2h_prob, home_adv, standing_prob) ==
    FAdd(FAdd(FScale(40, momentum_prob), FScale(30, h2h_prob)),
         FAdd(FScale(15, home_adv), FScale(15, standing_prob)))

\* prob / total, for the blends a and b of the two teams
Normalized(a, b) ==
    LET l == LCM(a[2], b[2])
        na == a[1] * (l \div a[2])
        nb == b[1] * (l \div b[2])
    IN  Frac(na, na + nb)

ScaledShare_NoDrawReserve(p) == FScale(1000, p)

\* prob * (1 - draw_prob) * 100, in tenths: draw_prob = 0.25
ScaledShare(p) == FScale(750, p)

\* round(x, 1) of the float nearest to the fraction f (in tenths): the
\* nearest tenth, and either neighbour when f is midway between two
\* tenths (the float is then a shade above or below, or exact).
RoundedTenths(f) ==
    LET q == f[1] \div f[2]
        r == f[1] % f[2]
    IN  IF 2 * r < f[2] THEN {q}
        ELSE IF 2 * r > f[2] THEN {q + 1} ELSE {q, q + 1}

Confidence_HighFromTwo(total_matches) ==
    IF total_matches >= 2 THEN "High"
    ELSE IF total_matches >= 1 THEN "Medium" ELSE "Low"

\* 'High' if total_matches >= 3 else ('Medium' if total_matches >= 1 else 'Low')
Confidence(total_matches) ==
    IF total_matches >= 3 THEN "High"
    ELSE IF total_matches >= 1 THEN "Medium" ELSE "Low"

\* The four signals of the two teams, before the weighted blend.  The
\* locals standings, momentum_a, momentum_b and h2h are bound to their values
\* once, as the assignments of the code do.
WinSignals(rows, team_a, team_b, home_team) ==
    LET Signals(standings, momentum_a, momentum_b, h2h) ==
            LET team_a_pos == PosOf(standings, team_a)
                team_b_pos == PosOf(standings, team_b)
                total_momentum == momentum_a + momentum_b
            IN  [momentum_prob_a |-> MomentumShare(momentum_a, total_momentum),
                 momentum_prob_b |-> MomentumShare(momentum_b, total_momentum),
                 h2h_prob_a |->
                     H2HShare(h2h.team_a_wins, h2h.draws, h2h.total_matches),
                 h2h_prob_b |->
                     H2HShare(h2h.team_b_wins, h2h.draws, h2h.total_matches),
                 home_adv_a |-> HomeAdvantageA(team_a, team_b, home_team),
                 home_adv_b |-> HomeAdvantageB(team_a, team_b, home_team),
                 standing_prob_a |-> StandingShare(team_a_pos),
                 standing_prob_b |-> StandingShare(team_b_pos),
                 total_matches |-> h2h.total_matches]
    IN  CHOOSE s \in
            { Signals(standings, momentum_a, momentum_b, h2h) :
                  standings \in {calculate_standings(rows)},
                  momentum_a \in {calculate_momentum_score(rows, team_a, 5)},
                  momentum_b \in {calculate_momentum_score(rows, team_b, 5)},
                  h2h \in {get_head_to_head_stats(rows, team_a, team_b)} } : TRUE

\* prob_a and prob_b before rounding, as shares of the 75% left by the draw
WinShares(rows, team_a, team_b, home_team) ==
    LET Shares(s) ==
            LET prob_a == Blend(s.momentum_prob_a, s.h2h_prob_a, s.home_adv_a,
                                s.standing_prob_a)
                prob_b == Blend(s.momentum_prob_b, s.h2h_prob_b, s.home_adv_b,
                                s.standing_prob_b)
            IN  [a |-> ScaledShare(Normalized(prob_a, prob_b)),
                 b |-> ScaledShare(Normalized(prob_b, prob_a)),
                 total_matches |-> s.total_matches]
    IN  CHOOSE w \in
            { Shares(s) : s \in {WinSignals(rows, team_a, team_b, home_team)} } : TRUE

\* The dicts calculate_win_probability can return.
calculate_win_probability(rows, team_a, team_b, home_team) ==
    LET Dicts(w) ==
            LET home_win ==
                    IF home_team = team_b /\ home_team # team_a THEN w.b ELSE w.a
                away_win ==
                    IF home_team = team_b /\ home_team # team_a THEN w.a ELSE w.b
            IN  { [home_win |-> hw, draw |-> 250, away_win |-> aw,
                   confidence |-> Confidence(w.total_matches)] :
                      hw \in RoundedTenths(home_win),
                      aw \in RoundedTenths(away_win) }
    IN  UNION { Dicts(w) : w \in {WinShares(rows, team_a, team_b, home_team)} }

\* The only exception is the one calculate_standings ends with; team_a is
\* not compared with team_b before the computation.
WinProbRaises(cols, rows, team_a, team_b) == StandingsRaises(cols, rows)

(***************************************************************************)
(* get_referee_stats                                                       *)
(***************************************************************************)
\* an empty Referee cell, which pandas reads as NaN
NoReferee == ""

\* df['Referee'].dropna().unique(): the names in order of first appearance
RefereeNames(rows) ==
    LET first == SelectSeq([i \in 1..Len(rows) |-> i],
                     LAMBDA i : /\ rows[i].Referee # NoReferee
                                /\ \A j \in 1..(i - 1) :
                                      rows[j].Referee # rows[i].Referee)
    IN  [k \in 1..Len(first) |-> rows[first[k]].Referee]

\* ref_matches[[home, away]].sum().sum() if both columns are in the frame
PairSum(cols, ref_matches, home, away) ==
    IF {home, away} \subseteq cols
    THEN ColSum(ref_matches, home) + ColSum(ref_matches, away)
    ELSE 0

\* One entry of ref_stats; the per-match values are in hundredths.
RefereeEntry(cols, rows, ref) ==
    LET ref_matches == RowsWhere(rows, "Referee", ref)
        total_yellows == PairSum(cols, ref_matches, "HY", "AY")
        total_reds == PairSum(cols, ref_matches, "HR", "AR")
        total_fouls == PairSum(cols, ref_matches, "HF", "AF")
    IN  [Referee |-> ref,
         Matches |-> Len(ref_matches),
         Yellow_Cards |-> total_yellows,
         Red_Cards |-> total_reds,
         Cards_Match |->
             IF Len(ref_matches) > 0
             THEN RoundDiv((total_yellows + total_reds) * 100, Len(ref_matches))
             ELSE 0,
         Fouls_Match |->
             IF Len(ref_matches) > 0
             THEN RoundDiv(total_fouls * 100, Len(ref_matches))
             ELSE 0]

\* Insertion of entry e into s, which is sorted by Matches, largest first;
\* entries of equal Matches keep their order.
RECURSIVE InsertByMatchesDesc(_, _)
InsertByMatchesDesc(e, s) ==
    IF s = <<>> THEN <<e>>
    ELSE IF Head(s).Matches >= e.Matches
         THEN <<Head(s)>> \o InsertByMatchesDesc(e, Tail(s))
         ELSE <<e>> \o s

\* sort_values('Matches', ascending=False)
RECURSIVE SortByMatchesDesc(_)
SortByMatchesDesc(s) ==
    IF s = <<>> THEN <<>>
    ELSE InsertByMatchesDesc(s[Len(s)], SortByMatchesDesc(SubSeq(s, 1, Len(s) - 1)))

\* pd.DataFrame([]) has no column 'Matches'; sorting it by that column is
\* a KeyError.
RefereeStatsRaises(rows) ==
    IF RefereeNames(rows) = <<>> THEN "KeyError" ELSE "none"

get_referee_stats(cols, rows) ==
    LET refs == RefereeNames(rows)
        ref_stats == [k \in 1..Len(refs) |-> RefereeEntry(cols, rows, refs[k])]
    IN  SortByMatchesDesc(ref_stats)

(***************************************************************************)
(* validate_dataframe                                                      *)
(***************************************************************************)
required_cols ==
    <<"Div", "Date", "HomeTeam", "AwayTeam",
      "FTHG", "FTAG", "FTR",
      "HTHG", "HTAG", "HTR",
      "HS", "AS", "HST", "AST",
      "HF", "AF", "HC", "AC",
      "HY", "AY", "HR", "AR",
      "Referee">>

numeric_cols == <<"FTHG", "FTAG", "HTHG", "HTAG", "HS", "AS", "HST", "AST">>

\* columns of the file whose name starts with B365, Avg or Max
OddsColumns == {"B365H"}

\* The list of error messages, each as the tuple of its parts.
ValidationErrors(cols, rows) ==
    LET missing_cols == SelectSeq(required_cols, LAMBDA col : col \notin cols)
        negative == SelectSeq(numeric_cols,
                        LAMBDA col : /\ col \in cols
                                     /\ \E i \in 1..Len(rows) : rows[i][col] < 0)
        odds_cols == cols \cap OddsColumns
    IN  (IF missing_cols # <<>>
           THEN << <<"Missing required columns", missing_cols>> >> ELSE <<>>)
        \o
        (IF cols = {} \/ rows = <<>>
           THEN << <<"DataFrame is empty">> >> ELSE <<>>)
        \o
        [i \in 1..Len(negative) |->
            <<"Column", negative[i], "contains negative values">>]
        \o
        (IF odds_cols = {}
           THEN << <<"No odds columns found in dataset">> >> ELSE <<>>)

\* return (len(errors) == 0, errors)
validate_dataframe(cols, rows) ==
    LET errors == ValidationErrors(cols, rows)
    IN  [is_valid |-> Len(errors) = 0, errors |-> errors]

(***************************************************************************)
(* State machine: the table is read row by row; a page calls one of the    *)
(* feature functions on it, holds what the call gave back and returns.     *)
(***************************************************************************)
NoArgs == [team_a |-> "", team_b |-> "", home_team |-> "", venue |-> "", n |-> 0]

\* a dict without keys
NoStats == [k \in {} |-> 0]

NoProb == [home_win |-> 0, draw |-> 0, away_win |-> 0, confidence |-> ""]

NoValidation == [is_valid |-> FALSE, errors |-> <<>>]

NoOut ==
    [standings |-> <<>>, form |-> <<>>, momentum |-> 0, h2h |-> H2HZero,
     stats |-> NoStats, prob |-> NoProb, valid |-> NoValidation,
     referees |-> <<>>]

Reset ==
    /\ op' = "none"
    /\ args' = NoArgs
    /\ exc' = "none"
    /\ out' = NoOut

InitWith(colsets) ==
    /\ df = <<>>
    /\ columns \in colsets
    /\ op = "none"
    /\ args = NoArgs
    /\ exc = "none"
    /\ out = NoOut

\* One more row of the CSV file (pd.read_csv in load_epl_data).
LoadRowFrom(limit, teams, scores, lines, dates) ==
    /\ op = "none"
    /\ columns # NoColumns
    /\ Len(df) < limit
    /\ \E h \in teams, a \in teams, sc \in scores, st \in lines, d \in dates :
          /\ h # a
          /\ df' = Append(df, MatchRow(d, h, a, sc, st, "M Oliver"))
    /\ UNCHANGED <<columns, op, args, exc, out>>

\* The page has used the value; the table stays as it is.
Return ==
    /\ op # "none"
    /\ Reset
    /\ UNCHANGED <<df, columns>>

CallStandings ==
    /\ op = "none"
    /\ op' = "calculate_standings"
    /\ args' = NoArgs
    /\ exc' = StandingsRaises(columns, df)
    /\ out' = [NoOut EXCEPT !.standings =
                  IF exc' = "none" THEN calculate_standings(df) ELSE <<>>]
    /\ UNCHANGED <<df, columns>>

CallForm_WritesTeamResult(teams, ns) ==
    \E t \in teams, n \in ns :
        /\ op = "none"
        /\ columns # NoColumns
        /\ op' = "calculate_form_for_team"
        /\ args' = [NoArgs EXCEPT !.team_a = t, !.n = n]
        /\ exc' = "none"
        /\ out' = [NoOut EXCEPT !.form = calculate_form_for_team(df, t, n)]
        /\ columns' = columns \cup {"TeamResult"}
        /\ UNCHANGED df

\* home_matches and away_matches are copies (.copy()): the TeamResult
\* column is written to them, and the table is left as it is.
CallForm(teams, ns) ==
    \E t \in teams, n \in ns :
        /\ op = "none"
        /\ columns # NoColumns
        /\ op' = "calculate_form_for_team"
        /\ args' = [NoArgs EXCEPT !.team_a = t, !.n = n]
        /\ exc' = "none"
        /\ out' = [NoOut EXCEPT !.form = calculate_form_for_team(df, t, n)]
        /\ UNCHANGED <<df, columns>>

CallMomentum(teams, ns) ==
    \E t \in teams, n \in ns :
        /\ op = "none"
        /\ columns # NoColumns
        /\ op' = "calculate_momentum_score"
        /\ args' = [NoArgs EXCEPT !.team_a = t, !.n = n]
        /\ exc' = MomentumRaises(df, t, n)
        /\ out' = [NoOut EXCEPT !.momentum =
                      IF exc' = "none" THEN calculate_momentum_score(df, t, n) ELSE 0]
        /\ UNCHANGED <<df, columns>>

CallH2H(teams) ==
    \E a \in teams, b \in teams :
        /\ op = "none"
        /\ columns # NoColumns
        /\ op' = "get_head_to_head_stats"
        /\ args' = [NoArgs EXCEPT !.team_a = a, !.team_b = b]
        /\ exc' = H2HRaises(a, b)
        /\ out' = [NoOut EXCEPT !.h2h =
                      IF exc' = "none" THEN get_head_to_head_stats(df, a, b) ELSE H2HZero]
        /\ UNCHANGED <<df, columns>>

CallTeamStats(teams, venues) ==
    \E t \in teams, v \in venues :
        /\ op = "none"
        /\ columns # NoColumns
        /\ op' = "get_team_stats"
        /\ args' = [NoArgs EXCEPT !.team_a = t, !.venue = v]
        /\ exc' = TeamStatsRaises(columns, df, t, v)
        /\ out' = [NoOut EXCEPT !.stats =
                      IF exc' = "none" THEN get_team_stats(columns, df, t, v)
                      ELSE NoStats]
        /\ UNCHANGED <<df, columns>>

CallWinProbability(teams, neutral) ==
    \E a \in teams, b \in teams :
        \E home \in {a, b} \cup neutral :
            /\ op = "none"
            /\ op' = "calculate_win_probability"
            /\ args' = [NoArgs EXCEPT !.team_a = a, !.team_b = b, !.home_team = home]
            /\ exc' = WinProbRaises(columns, df, a, b)
            /\ IF exc' = "none"
               THEN \E p \in calculate_win_probability(df, a, b, home) :
                       out' = [NoOut EXCEPT !.prob = p]
               ELSE out' = NoOut
            /\ UNCHANGED <<df, columns>>

CallRefereeStats ==
    /\ op = "none"
    /\ columns # NoColumns
    /\ op' = "get_referee_stats"
    /\ args' = NoArgs
    /\ exc' = RefereeStatsRaises(df)
    /\ out' = [NoOut EXCEPT !.referees =
                  IF exc' = "none" THEN get_referee_stats(columns, df) ELSE <<>>]
    /\ UNCHANGED <<df, columns>>

CallValidate ==
    /\ op = "none"
    /\ op' = "validate_dataframe"
    /\ args' = NoArgs
    /\ exc' = "none"
    /\ out' = [NoOut EXCEPT !.valid = validate_dataframe(columns, df)]
    /\ UNCHANGED <<df, columns>>

\* Standings pages: fixtures arrive in date order.
LoadRow == LoadRowFrom(MaxMatches, Teams, Scores, {PlainStats}, {Len(df) + 1})

Init == InitWith({NoColumns, AllColumns})

Next == LoadRow \/ CallStandings \/ Return

Spec == Init /\ [][Next]_vars

\* Head-to-head page: the two selected teams, or a name that is in no row.
PairTeams == {"Arsenal", "Liverpool", "NonExistentTeam"}

LoadPairRow == LoadRowFrom(MaxPairMatches, Teams, Scores, {PlainStats}, {Len(df) + 1})

InitPair == InitWith({AllColumns})

\* home_team is one of the two teams on the page; a third team stands for
\* a neutral venue.
NextPair ==
    \/ LoadPairRow
    \/ CallH2H(PairTeams)
    \/ CallForm(PairTeams, {1, 5})
    \/ CallMomentum(PairTeams, {5})
    \/ CallWinProbability(PairTeams, {"Chelsea"})
    \/ Return

SpecPair == InitPair /\ [][NextPair]_vars

\* Team page: one team's statistics by venue, with or without shot columns.
StatsTeams == {"Arsenal", "Liverpool"}
Venues == {"home", "away", "all"}

LoadStatsRow == LoadRowFrom(MaxMatches, StatsTeams, Scores, StatLines, {Len(df) + 1})

InitStats == InitWith({AllColumns, AllColumns \ ShotColumns})

NextStats == LoadStatsRow \/ CallTeamStats(PairTeams, Venues) \/ Return

SpecStats == InitStats /\ [][NextStats]_vars

\* Repeated meetings of the same two clubs, at either ground.
MaxMeetings == 3
MeetTeams == {"Arsenal", "Liverpool"}

LoadMeetRow == LoadRowFrom(MaxMeetings, MeetTeams, Scores, {PlainStats}, {Len(df) + 1})

NextMeet ==
    \/ LoadMeetRow
    \/ CallH2H(PairTeams)
    \/ CallWinProbability(PairTeams, {"Chelsea"})
    \/ Return

SpecMeet == InitPair /\ [][NextMeet]_vars

\* Form of a club whose fixtures are listed in any order of date, two of
\* them possibly on the same day.
MaxFormMatches == 3
FormDates == {1, 2, 3}

LoadFormRow == LoadRowFrom(MaxFormMatches, MeetTeams, Scores, {PlainStats}, FormDates)

NextForm == LoadFormRow \/ CallForm({"Arsenal"}, {0, 1, 2, 5}) \/ Return

SpecForm == InitPair /\ [][NextForm]_vars

\* A run of fixtures of one club, long enough to use every weight of the
\* momentum score.
MaxSeason == 5

LoadSeasonRow == LoadRowFrom(MaxSeason, MeetTeams, Scores, {PlainStats}, {Len(df) + 1})

NextSeason == LoadSeasonRow \/ CallMomentum({"Arsenal"}, {1, 5}) \/ Return

SpecSeason == InitPair /\ [][NextSeason]_vars

\* A club with more fixtures than the momentum score has weights.
MaxLongRun == 6

\* fixtures with a winner
DecisiveScores == { <<2, 1, "H">>, <<0, 2, "A">> }

LoadLongRunRow ==
    LoadRowFrom(MaxLongRun, MeetTeams, DecisiveScores, {PlainStats}, {Len(df) + 1})

NextLongRun ==
    \/ LoadLongRunRow
    \/ CallMomentum({"Arsenal", "NonExistentTeam"}, {0, 5, 6})
    \/ Return

SpecLongRun == InitPair /\ [][NextLongRun]_vars

\* A file that was not validated: a stored result that is no result, a
\* goal count below zero.
DirtyScores == { <<1, 0, "X">>, <<-1, 2, "A">>, <<2, 1, "H">> }

LoadDirtyRow ==
    LoadRowFrom(MaxPairMatches, MeetTeams, DirtyScores, {PlainStats}, {Len(df) + 1})

NextDirty ==
    \/ LoadDirtyRow
    \/ CallStandings
    \/ CallForm(MeetTeams, {5})
    \/ CallH2H(MeetTeams)
    \/ CallTeamStats(MeetTeams, Venues)
    \/ Return

SpecDirty == InitPair /\ [][NextDirty]_vars

\* The file as load_data hands it to validate_dataframe: every column of
\* the season files, or a file that lacks the odds, lacks the referee, or
\* is another table altogether; a count in it may be below zero.
FileColumns == AllColumns \cup {"Div", "HTHG", "HTAG", "HTR"} \cup OddsColumns

FileColumnSets ==
    { FileColumns, FileColumns \ OddsColumns, FileColumns \ {"Referee"},
      {"Col1"}, NoColumns }

CountColumns ==
    {"FTHG", "FTAG", "HTHG", "HTAG", "HS", "AS", "HST", "AST",
     "HF", "AF", "HC", "AC", "HY", "AY", "HR", "AR"}

\* A row of the file; the count in column neg, if one is named, is -1.
FileRow(date, neg) ==
    LET r == MatchRow(date, "Arsenal", "Liverpool", <<2, 1, "H">>, PlainStats,
                      "M Oliver")
             @@ [Div |-> "E0", HTHG |-> 1, HTAG |-> 0, HTR |-> "H", B365H |-> 210]
    IN  IF neg = "" THEN r ELSE [r EXCEPT ![neg] = -1]

LoadFileRow ==
    /\ op = "none"
    /\ columns # NoColumns
    /\ Len(df) < MaxPairMatches
    /\ \E neg \in CountColumns \cup {""} :
          df' = Append(df, FileRow(Len(df) + 1, neg))
    /\ UNCHANGED <<columns, op, args, exc, out>>

InitFile == InitWith(FileColumnSets)

NextFile == LoadFileRow \/ CallValidate \/ Return

SpecFile == InitFile /\ [][NextFile]_vars

\* Referee page: fixtures of two referees, some without a referee named;
\* a file may lack the red-card columns.
Referees == {"M Oliver", "A Taylor", NoReferee}

LoadRefereeRow ==
    /\ op = "none"
    /\ Len(df) < MaxMatches
    /\ \E st \in StatLines, ref \in Referees :
          df' = Append(df, MatchRow(Len(df) + 1, "Arsenal", "Liverpool",
                                    <<2, 1, "H">>, st, ref))
    /\ UNCHANGED <<columns, op, args, exc, out>>

InitReferee == InitWith({AllColumns, AllColumns \ {"HR", "AR"}})

NextReferee == LoadRefereeRow \/ CallRefereeStats \/ Return

SpecReferee == InitReferee /\ [][NextReferee]_vars

\* One loaded table serves every page: any sequence of calls of the seven
\* operations on it.
LoadSharedRow ==
    LoadRowFrom(MaxPairMatches, MeetTeams, Scores, {PlainStats}, {Len(df) + 1})

NextShared ==
    \/ LoadSharedRow
    \/ CallStandings
    \/ CallForm(MeetTeams, {5})
    \/ CallMomentum(MeetTeams, {5})
    \/ CallH2H(MeetTeams)
    \/ CallTeamStats(MeetTeams, Venues)
    \/ CallWinProbability(MeetTeams, {})
    \/ CallRefereeStats
    \/ Return

SpecShared == InitPair /\ [][NextShared]_vars

\* Standings of a table whose rows are listed in any order of date, with
\* fixtures of one day possible.
OrderDates == {1, 2}

LoadAnyOrderRow == LoadRowFrom(MaxPairMatches, Teams, Scores, {PlainStats}, OrderDates)

NextAnyOrder == LoadAnyOrderRow \/ CallStandings \/ Return

SpecAnyOrder == InitPair /\ [][NextAnyOrder]_vars

(***************************************************************************)
(* Properties of calculate_standings.                                      *)
(***************************************************************************)
StandingsReturned == op = "calculate_standings" /\ exc = "none"

\* Number of rows of the table whose stored result is in rs.
NumWithResult(rows, rs) == Cardinality({i \in 1..Len(rows) : rows[i].FTR \in rs})

PtsColumn(s) == [i \in 1..Len(s) |-> s[i].Pts]

\* C1: the Pts column of the table calculate_standings returns sums to
\* 3 x (matches with result H or A) + 2 x (matches with result D).
C1_PointsSum ==
    op = "calculate_standings" =>
        SumSeq(PtsColumn(out.standings))
            = 3 * NumWithResult(df, {"H", "A"}) + 2 * NumWithResult(df, {"D"})

\* A table was returned for fixtures of which one was drawn and one decided.
C1_Witness ==
    /\ StandingsReturned
    /\ NumWithResult(df, {"D"}) >= 1
    /\ NumWithResult(df, {"H", "A"}) >= 1
    /\ Len(out.standings) = 3

\* (Pts, GD, GF) of a is lexicographically >= that of b.
KeyGeq(a, b) ==
    \/ a.Pts > b.Pts
    \/ a.Pts = b.Pts /\ a.GD > b.GD
    \/ a.Pts = b.Pts /\ a.GD = b.GD /\ a.GF >= b.GF

\* C2: in the returned table every row's key (Pts, GD, GF) is
\* lexicographically >= the key of the row below it.
C2_SortedByKey ==
    op = "calculate_standings" =>
        \A i \in 1..(Len(out.standings) - 1) :
            KeyGeq(out.standings[i], out.standings[i + 1])

\* The team that is last by name leads the table on goal difference alone.
C2_Witness ==
    /\ StandingsReturned
    /\ Len(out.standings) = 3
    /\ out.standings[1].Team = "Liverpool"
    /\ out.standings[1].Pts = out.standings[2].Pts
    /\ out.standings[1].GD > out.standings[2].GD

\* Indices of the matches of team at a venue column with a stored result in rs.
MatchesOf(rows, col, team, rs) ==
    {i \in 1..Len(rows) : rows[i][col] = team /\ rows[i].FTR \in rs}

RECURSIVE SumOver(_, _, _)
SumOver(rows, idx, col) ==
    IF idx = {} THEN 0
    ELSE LET i == CHOOSE j \in idx : TRUE
         IN  rows[i][col] + SumOver(rows, idx \ {i}, col)

AnyResult == {"H", "D", "A"}

\* The row the claim describes for team, counted match by match.
RowAsSpecified(rows, team, r) ==
    LET H(rs) == MatchesOf(rows, "HomeTeam", team, rs)
        A(rs) == MatchesOf(rows, "AwayTeam", team, rs)
    IN  /\ r.P = Cardinality(H(AnyResult)) + Cardinality(A(AnyResult))
        /\ r.W = Cardinality(H({"H"})) + Cardinality(A({"A"}))
        /\ r.L = Cardinality(H({"A"})) + Cardinality(A({"H"}))
        /\ r.D = Cardinality(H({"D"})) + Cardinality(A({"D"}))
        /\ r.GF = SumOver(rows, H(AnyResult), "FTHG") + SumOver(rows, A(AnyResult), "FTAG")
        /\ r.GA = SumOver(rows, H(AnyResult), "FTAG") + SumOver(rows, A(AnyResult), "FTHG")
        /\ r.Pts = 3 * r.W + r.D

ArsenalBeatsLiverpool ==
    /\ Len(df) = 1
    /\ df[1].HomeTeam = "Arsenal" /\ df[1].AwayTeam = "Liverpool"
    /\ df[1].FTHG = 2 /\ df[1].FTAG = 1 /\ df[1].FTR = "H"

StatLineOf(r) == <<r.Pos, r.Team, r.P, r.W, r.D, r.L, r.GF, r.GA, r.GD, r.Pts>>

C7_EmptyTableReturned ==
    (op = "calculate_standings" /\ df = <<>>) =>
        (exc = "none" /\ out.standings = <<>>)

\* Names that occur as home or away team in some row.
TeamsIn(rows) ==
    {rows[i].HomeTeam : i \in 1..Len(rows)} \cup {rows[i].AwayTeam : i \in 1..Len(rows)}

\* C21: the rows of the returned table correspond one to one to the team
\* names that occur as home or away team in some match, and row i has
\* Pos = i.
C21_OneRowPerTeam ==
    op = "calculate_standings" =>
        /\ {out.standings[i].Team : i \in 1..Len(out.standings)} = TeamsIn(df)
        /\ Len(out.standings) = Cardinality(TeamsIn(df))
        /\ \A i \in 1..Len(out.standings) : out.standings[i].Pos = i

\* Three teams, of which one has only played away and is not last.
C21_Witness ==
    /\ StandingsReturned
    /\ Len(out.standings) = 3
    /\ \E t \in TeamsIn(df) :
          /\ \A i \in 1..Len(df) : df[i].HomeTeam # t
          /\ out.standings[1].Team = t

\* Place of a name in ascending order of the names.
NameRank(t) ==
    IF t = "Arsenal" THEN 1 ELSE IF t = "Chelsea" THEN 2
    ELSE IF t = "Liverpool" THEN 3 ELSE 4

TiedOnKeys(a, b) == a.Pts = b.Pts /\ a.GD = b.GD /\ a.GF = b.GF

\* C22: rows tied on Pts, GD and GF are in ascending order of team name,
\* the order in which the teams were enumerated before the sort.
C22_TiesKeepNameOrder ==
    op = "calculate_standings" =>
        \A i, j \in 1..Len(out.standings) :
            (i < j /\ TiedOnKeys(out.standings[i], out.standings[j])) =>
                NameRank(out.standings[i].Team) < NameRank(out.standings[j].Team)

\* Two tied teams below a leader whose name comes after theirs.
C22_Witness ==
    /\ StandingsReturned
    /\ Len(out.standings) = 3
    /\ out.standings[1].Team = "Liverpool"
    /\ TiedOnKeys(out.standings[2], out.standings[3])
    /\ out.standings[2].P > 0

\* C20: every row of the returned table has GD = GF - GA.
C20_GoalDifference ==
    op = "calculate_standings" =>
        \A i \in 1..Len(out.standings) :
            out.standings[i].GD = out.standings[i].GF - out.standings[i].GA

\* A returned table with a team that scored and has a negative difference.
C20_Witness ==
    /\ StandingsReturned
    /\ \E i \in 1..Len(out.standings) :
          /\ out.standings[i].GF > 0
          /\ out.standings[i].GD < 0
          /\ out.standings[i].P = 2

(***************************************************************************)
(* Properties of get_head_to_head_stats, form and momentum.                *)
(***************************************************************************)
\* Number of rows whose {home, away} pair is {a, b}.
NumBetween(rows, a, b) ==
    Cardinality({i \in 1..Len(rows) :
                    {rows[i].HomeTeam, rows[i].AwayTeam} = {a, b}})

\* C5: for distinct teams A, B the head-to-head record has
\* team_a_wins + team_b_wins + draws = total_matches, the number of rows
\* whose {home, away} pair is {A, B}.
C5_H2HOutcomesAddUp ==
    (op = "get_head_to_head_stats" /\ args.team_a # args.team_b) =>
        /\ exc = "none"
        /\ out.h2h.total_matches = NumBetween(df, args.team_a, args.team_b)
        /\ out.h2h.team_a_wins + out.h2h.team_b_wins + out.h2h.draws
              = out.h2h.total_matches

\* Two meetings, one at each ground, both won by the first-named team.
C5_Witness ==
    /\ op = "get_head_to_head_stats"
    /\ args.team_a = "Arsenal" /\ args.team_b = "Liverpool"
    /\ out.h2h.total_matches = 2
    /\ out.h2h.team_a_wins = 2
    /\ \E i \in 1..Len(df) : df[i].HomeTeam = "Liverpool" /\ df[i].FTR = "A"

\* Indices of the rows between a and b.
RowsBetween(rows, a, b) ==
    {i \in 1..Len(rows) : {rows[i].HomeTeam, rows[i].AwayTeam} = {a, b}}

\* Goals of team in the rows idx, each taken from the side the team had.
RECURSIVE GoalsOf(_, _, _)
GoalsOf(rows, idx, team) ==
    IF idx = {} THEN 0
    ELSE LET i == CHOOSE j \in idx : TRUE
         IN  (IF rows[i].HomeTeam = team THEN rows[i].FTHG ELSE rows[i].FTAG)
             + GoalsOf(rows, idx \ {i}, team)

C19_H2HSwap ==
    (op = "get_head_to_head_stats" /\ args.team_a # args.team_b) =>
        LET swapped == get_head_to_head_stats(df, args.team_b, args.team_a)
        IN  /\ out.h2h.team_a_wins = swapped.team_b_wins
            /\ out.h2h.team_b_wins = swapped.team_a_wins
            /\ out.h2h.team_a_goals = swapped.team_b_goals
            /\ out.h2h.team_b_goals = swapped.team_a_goals
            /\ out.h2h.total_matches = swapped.total_matches
            /\ out.h2h.draws = swapped.draws
            /\ out.h2h.matches = swapped.matches

\* A record that is not its own mirror image: one win each way is excluded.
C19_Witness ==
    /\ op = "get_head_to_head_stats"
    /\ args.team_a = "Arsenal" /\ args.team_b = "Liverpool"
    /\ out.h2h.total_matches = 2
    /\ out.h2h.team_a_wins = 0 /\ out.h2h.team_b_wins = 1 /\ out.h2h.draws = 1
    /\ out.h2h.team_a_goals < out.h2h.team_b_goals

InNoMatch(rows, team) ==
    \A i \in 1..Len(rows) : rows[i].HomeTeam # team /\ rows[i].AwayTeam # team

\* C9: for a team that is in no row of a table that has rows, the form
\* is the empty string, the momentum score is 0.0 and the head-to-head
\* record with any other team is all zero with no matches; none raises.
C9_AbsentTeamEmptyResults ==
    (df # <<>> /\ InNoMatch(df, args.team_a)) =>
        /\ op = "calculate_form_for_team" => (exc = "none" /\ out.form = <<>>)
        /\ op = "calculate_momentum_score" => (exc = "none" /\ out.momentum = 0)
        /\ (op = "get_head_to_head_stats" /\ args.team_b # args.team_a) =>
              (exc = "none" /\ out.h2h = H2HZero)

\* Head-to-head of an absent team against a team that has played.
C9_Witness ==
    /\ op = "get_head_to_head_stats"
    /\ args.team_a = "NonExistentTeam" /\ args.team_b = "Arsenal"
    /\ Len(df) = 2
    /\ \A i \in 1..Len(df) : df[i].AwayTeam = "Arsenal"
    /\ out.h2h = H2HZero

\* Indices of the rows in which team plays.
RowsOf(rows, team) ==
    {i \in 1..Len(rows) : rows[i].HomeTeam = team \/ rows[i].AwayTeam = team}

\* C15: for n >= 0 the form has exactly min(n, matches the team played)
\* characters, each of them W, D or L.
C15_FormLength ==
    op = "calculate_form_for_team" =>
        LET played == Cardinality(RowsOf(df, args.team_a))
        IN  /\ exc = "none"
            /\ Len(out.form) = (IF args.n <= played THEN args.n ELSE played)
            /\ \A i \in 1..Len(out.form) : out.form[i] \in {"W", "D", "L"}

\* Two of three matches asked for, one of them played away.
C15_Witness ==
    /\ op = "calculate_form_for_team"
    /\ args.n = 2
    /\ Cardinality(RowsOf(df, args.team_a)) = 3
    /\ \E i \in 1..Len(df) : df[i].AwayTeam = args.team_a
    /\ Len(out.form) = 2

DistinctDates(rows, team) ==
    \A i, j \in RowsOf(rows, team) : i # j => rows[i].Date # rows[j].Date

\* A row validation would have rejected.
IsDirty(r) == r.FTR \notin {RESULT_HOME_WIN, RESULT_DRAW, RESULT_AWAY_WIN}
              \/ r.FTHG < 0 \/ r.FTAG < 0

\* C25: on a table with a row whose stored result is outside {H, D, A} or
\* whose goal count is negative, calculate_standings,
\* calculate_form_for_team, get_head_to_head_stats and get_team_stats
\* return a result and do not raise.
C25_DirtyRowsNeverRaise ==
    /\ \E i \in 1..Len(df) : IsDirty(df[i])
    /\ op \in {"calculate_standings", "calculate_form_for_team",
               "get_head_to_head_stats", "get_team_stats"}
    => exc = "none"

\* C26: validate_dataframe returns is_valid = true exactly when its list
\* of error messages is empty, and the list is non-empty whenever a
\* required column is missing, the frame has no rows, or a required count
\* column (goals, half-time goals, shots, shots on target, fouls, corners,
\* cards) holds a negative value.
C26_ValidationRejects ==
    op = "validate_dataframe" =>
        /\ out.valid.is_valid <=> out.valid.errors = <<>>
        /\ (\/ \E i \in 1..Len(required_cols) : required_cols[i] \notin columns
            \/ df = <<>>
            \/ \E col \in CountColumns \cap columns :
                  \E i \in 1..Len(df) : df[i][col] < 0)
           => out.valid.errors # <<>>

\* The orders in which n rows can be listed.
Perms(n) == {f \in [1..n -> 1..n] : \A i, j \in 1..n : i # j => f[i] # f[j]}

Permuted(rows, f) == [i \in 1..Len(rows) |-> rows[f[i]]]

\* C29 as claimed: the table depends only on the multiset of rows; listed
\* in any other order, also when a team has two matches on one date, the
\* rows give the identical table.
C29_OrderIndependent ==
    StandingsReturned =>
        \A f \in Perms(Len(df)) :
            calculate_standings(Permuted(df, f)) = out.standings

\* C29 as amended: listed in any other order the rows give the same teams
\* in the same row order with the same Pos, P, W, D, L, GF, GA, GD and Pts,
\* and the same Form for every team whose matches are on distinct dates;
\* the Form of a team with two matches on one date follows the order in
\* which those matches are listed.
C29_OrderIndependentUpToSameDay ==
    StandingsReturned =>
        \A f \in Perms(Len(df)) :
            LET t == calculate_standings(Permuted(df, f))
            IN  /\ Len(t) = Len(out.standings)
                /\ \A i \in 1..Len(t) :
                      /\ StatLineOf(t[i]) = StatLineOf(out.standings[i])
                      /\ DistinctDates(df, t[i].Team) =>
                            t[i].Form = out.standings[i].Form

\* Two matches of one team listed latest first, with different results.
C29_Witness ==
    /\ StandingsReturned
    /\ Len(df) = 2
    /\ df[1].Date > df[2].Date
    /\ df[1].HomeTeam = df[2].AwayTeam
    /\ \E i \in 1..Len(out.standings) : out.standings[i].Form = <<"W", "L">>

\* The result of row r for team, by the stored result and the side it had.
LetterFor(r, team) ==
    IF r.FTR = "D" THEN "D"
    ELSE IF \/ r.HomeTeam = team /\ r.FTR = "H"
            \/ r.AwayTeam = team /\ r.FTR = "A"
         THEN "W" ELSE "L"

\* Number of the team's matches played later than row k.
NumLater(rows, team, k) ==
    Cardinality({j \in RowsOf(rows, team) : rows[j].Date > rows[k].Date})

\* C16: for a team whose matches have distinct dates, character i of the
\* form is the team's result in its i-th most recent match by date.
C16_MostRecentFirst ==
    (op = "calculate_form_for_team" /\ DistinctDates(df, args.team_a)) =>
        \A i \in 1..Len(out.form) :
            \E k \in RowsOf(df, args.team_a) :
                /\ NumLater(df, args.team_a, k) = i - 1
                /\ out.form[i] = LetterFor(df[k], args.team_a)

\* Three matches listed out of date order: the latest is the second row, an
\* away win, the earliest the first row.
C16_Witness ==
    /\ op = "calculate_form_for_team"
    /\ args.team_a = "Arsenal" /\ args.n = 5
    /\ Len(df) = 3
    /\ df[1].Date < df[3].Date /\ df[3].Date < df[2].Date
    /\ df[2].AwayTeam = "Arsenal"
    /\ out.form = <<"W", "L", "D">>

\* The team's matches from the most recent to the oldest, for matches on
\* distinct dates.
RECURSIVE LatestFirst(_, _, _)
LatestFirst(rows, team, idx) ==
    IF idx = {} THEN <<>>
    ELSE LET k == CHOOSE i \in idx : \A j \in idx : rows[j].Date <= rows[i].Date
         IN  <<rows[k]>> \o LatestFirst(rows, team, idx \ {k})

\* weight of position i, in hundredths: 1.5, 1.3, 1.1, 1.0, 0.8
WeightAt(i) ==
    IF i = 1 THEN 150 ELSE IF i = 2 THEN 130 ELSE IF i = 3 THEN 110
    ELSE IF i = 4 THEN 100 ELSE 80

PointsFor(letter) == IF letter = "W" THEN 3 ELSE IF letter = "D" THEN 1 ELSE 0

\* C17: for n up to 5 and matches on distinct dates the momentum score is
\* the sum, over the team's n most recent matches taken latest first, of
\* weight[i] * points(result[i]) with weights 1.5, 1.3, 1.1, 1.0, 0.8 and
\* points W=3, D=1, L=0, to 2 decimals; a single match, won, gives 4.5.
C17_MomentumWeightedSum ==
    (op = "calculate_momentum_score" /\ args.n <= 5) =>
        LET ms == LatestFirst(df, args.team_a, RowsOf(df, args.team_a))
            k == IF args.n <= Len(ms) THEN args.n ELSE Len(ms)
        IN  /\ exc = "none"
            /\ out.momentum
                  = SumSeq([i \in 1..k |->
                        WeightAt(i) * PointsFor(LetterFor(ms[i], args.team_a))])
            /\ (Len(ms) = 1 /\ args.n >= 1 /\ LetterFor(ms[1], args.team_a) = "W")
                  => out.momentum = 450

\* Five matches, the latest lost and the oldest won, the others mixed.
C17_Witness ==
    /\ op = "calculate_momentum_score"
    /\ args.team_a = "Arsenal" /\ args.n = 5
    /\ Len(df) = 5
    /\ LetterFor(df[5], "Arsenal") = "L"
    /\ LetterFor(df[1], "Arsenal") = "W"
    /\ LetterFor(df[4], "Arsenal") = "W"
    /\ LetterFor(df[3], "Arsenal") = "D"
    /\ out.momentum = 130 * 3 + 110 + 80 * 3

\* C27: with the default num_matches = 5 the momentum score lies between
\* 0 and 15, and 15 is the score of a team whose five counted matches are
\* all wins.
C27_MomentumAtMost15 ==
    (op = "calculate_momentum_score" /\ args.n = 5 /\ exc = "none") =>
        /\ out.momentum >= 0
        /\ out.momentum <= 1500
        /\ (/\ Cardinality(RowsOf(df, args.team_a)) >= 5
            /\ \A i \in RowsOf(df, args.team_a) :
                  LetterFor(df[i], args.team_a) = "W") => out.momentum = 1500

\* C28: calculate_momentum_score returns a number and does not raise for
\* every n >= 0 and every team, also for n > 5 when the team has played
\* more than 5 matches.
C28_MomentumNeverRaises ==
    op = "calculate_momentum_score" => exc = "none"

(***************************************************************************)
(* Properties of get_team_stats.                                           *)
(***************************************************************************)
NumAt(rows, col, team) == Cardinality({i \in 1..Len(rows) : rows[i][col] = team})

\* C3: get_team_stats(df, team, None) returns, for every team (also one
\* that played only at home or only away), the sums of the home and away
\* results for matches_played, wins, draws, losses, goals_for and
\* goals_against, with win_rate, averages and shot_accuracy recomputed from
\* the combined totals and the combined match count.
C3_AllIsHomePlusAway ==
    (op = "get_team_stats" /\ args.venue = "all") =>
        /\ exc = "none"
        /\ LET h == get_team_stats(columns, df, args.team_a, "home")
               a == get_team_stats(columns, df, args.team_a, "away")
               s == out.stats
           IN  /\ s.matches_played = h.matches_played + a.matches_played
               /\ s.wins = h.wins + a.wins
               /\ s.draws = h.draws + a.draws
               /\ s.losses = h.losses + a.losses
               /\ s.goals_for = h.goals_for + a.goals_for
               /\ s.goals_against = h.goals_against + a.goals_against
               /\ s.matches_played > 0 =>
                     /\ s.win_rate = RoundDiv(s.wins * 1000, s.matches_played)
                     /\ s.avg_goals_for
                           = RoundDiv(s.goals_for * 100, s.matches_played)
                     /\ s.avg_goals_against
                           = RoundDiv(s.goals_against * 100, s.matches_played)
                     /\ s.avg_shots
                           = RoundDiv(s.total_shots * 100, s.matches_played)
                     /\ s.shot_accuracy
                           = IF s.total_shots > 0
                             THEN RoundDiv(s.shots_on_target * 1000, s.total_shots)
                             ELSE 0

\* C8: for a team without a match at the requested venue get_team_stats
\* returns, without raising, a dict in which every field is zero: the
\* counts and also the averages and shot_accuracy.
C8_ZeroMatchStatsAllZero ==
    (/\ op = "get_team_stats"
     /\ args.venue \in {"all", "home"} => NumAt(df, "HomeTeam", args.team_a) = 0
     /\ args.venue \in {"all", "away"} => NumAt(df, "AwayTeam", args.team_a) = 0) =>
        /\ exc = "none"
        /\ \A k \in DOMAIN ZeroAllStats :
              k \in DOMAIN out.stats /\ out.stats[k] = 0

(***************************************************************************)
(* Properties of calculate_win_probability.                                *)
(***************************************************************************)
WinProbReturned == op = "calculate_win_probability" /\ exc = "none"

\* C6: for distinct teams and any home_team the returned home_win + draw +
\* away_win, each rounded to one decimal, lies in [99.9, 100.1].
C6_PercentagesSumTo100 ==
    (WinProbReturned /\ args.team_a # args.team_b) =>
        /\ out.prob.home_win + out.prob.draw + out.prob.away_win >= 999
        /\ out.prob.home_win + out.prob.draw + out.prob.away_win <= 1001

\* A prediction for two teams that met, with unequal chances.
C6_Witness ==
    /\ WinProbReturned
    /\ args.team_a = "Liverpool" /\ args.team_b = "Arsenal"
    /\ args.home_team = "Arsenal"
    /\ out.prob.confidence = "Medium"
    /\ out.prob.home_win > out.prob.away_win
    /\ out.prob.away_win > 0

\* C11: for distinct team names calculate_win_probability returns a result
\* on every table, also on one without rows; it never raises.
C11_WinProbNeverRaises ==
    (op = "calculate_win_probability" /\ args.team_a # args.team_b) =>
        exc = "none"

\* f is a share: a fraction in [0, 1]
IsShare(f) == f[1] >= 0 /\ f[1] <= f[2]

Complementary(f, g) == IsShare(f) /\ IsShare(g) /\ FAdd(f, g) = <<1, 1>>

\* C12: for distinct teams each of the four signals is a complementary
\* pair: the team_a share and the team_b share of momentum, of head-to-head,
\* of home advantage and of standings lie in [0, 1] and sum to 1.
C12_SignalsComplementary ==
    (WinProbReturned /\ args.team_a # args.team_b) =>
        LET s == WinSignals(df, args.team_a, args.team_b, args.home_team)
        IN  /\ Complementary(s.momentum_prob_a, s.momentum_prob_b)
            /\ Complementary(s.h2h_prob_a, s.h2h_prob_b)
            /\ Complementary(s.home_adv_a, s.home_adv_b)
            /\ Complementary(s.standing_prob_a, s.standing_prob_b)

\* The blends of the two teams as whole numbers in the same unit: each share
\* n/d is taken over the common denominator l and weighted 40, 30, 15, 15.
RefBlends(s) ==
    LET l == LCM(LCM(LCM(s.momentum_prob_a[2], s.momentum_prob_b[2]),
                     LCM(s.h2h_prob_a[2], s.h2h_prob_b[2])),
                 LCM(LCM(s.home_adv_a[2], s.home_adv_b[2]),
                     LCM(s.standing_prob_a[2], s.standing_prob_b[2])))
        N(f) == f[1] * (l \div f[2])
        a == 40 * N(s.momentum_prob_a) + 30 * N(s.h2h_prob_a)
               + 15 * N(s.home_adv_a) + 15 * N(s.standing_prob_a)
        b == 40 * N(s.momentum_prob_b) + 30 * N(s.h2h_prob_b)
               + 15 * N(s.home_adv_b) + 15 * N(s.standing_prob_b)
        g == GCD(a, b)
    IN  [a |-> a \div g, b |-> b \div g]

\* x is n/d rounded to a nearest whole number
IsNearest(x, n, d) ==
    LET q == n \div d
        r == n % d
    IN  \/ x = q /\ 2 * r <= d
        \/ x = q + 1 /\ 2 * r >= d

\* 750 * part / total, as numerator and denominator
RefTenths(part, total) ==
    LET g == GCD(750, total)
    IN  <<(750 \div g) * part, total \div g>>

\* C13: for distinct teams of which one is home_team, with the shares as
\* the function computes them, the returned home_win is 75% of the home
\* team's part of the two blends 0.40 momentum + 0.30 head-to-head + 0.15
\* home advantage + 0.15 standings, away_win is 75% of the other team's
\* part, both rounded to one decimal, and draw is 25.0.
C13_ReferenceBlend ==
    (/\ WinProbReturned
     /\ args.team_a # args.team_b
     /\ args.home_team \in {args.team_a, args.team_b}) =>
        LET r == RefBlends(WinSignals(df, args.team_a, args.team_b, args.home_team))
            home == IF args.home_team = args.team_a THEN r.a ELSE r.b
            away == IF args.home_team = args.team_a THEN r.b ELSE r.a
            h == RefTenths(home, r.a + r.b)
            a == RefTenths(away, r.a + r.b)
        IN  /\ out.prob.draw = 250
            /\ IsNearest(out.prob.home_win, h[1], h[2])
            /\ IsNearest(out.prob.away_win, a[1], a[2])

\* The second-named team is at home and has the better record in the two
\* meetings, of which the first-named team won none.
C13_Witness ==
    /\ WinProbReturned
    /\ args.team_a = "Liverpool" /\ args.team_b = "Arsenal"
    /\ args.home_team = "Arsenal"
    /\ NumBetween(df, "Arsenal", "Liverpool") = 2
    /\ NumWithResult(df, {"D"}) = 1
    /\ out.prob.home_win > 500
    /\ out.prob.away_win > 0

\* The label spelled out for a count of meetings.
LabelFor(n) == IF n >= 3 THEN "High" ELSE IF n \in {1, 2} THEN "Medium" ELSE "Low"

\* C14: the confidence label is fixed by the number of matches between
\* team_a and team_b alone: 'High' for 3 or more, 'Medium' for 1 or 2,
\* 'Low' for none.
C14_ConfidenceByMeetings ==
    WinProbReturned =>
        out.prob.confidence = LabelFor(NumBetween(df, args.team_a, args.team_b))

\* Three meetings give 'High' although the first-named team won none.
C14_Witness ==
    /\ WinProbReturned
    /\ args.team_a = "Arsenal" /\ args.team_b = "Liverpool"
    /\ NumBetween(df, "Arsenal", "Liverpool") = 3
    /\ out.prob.confidence = "High"
    /\ out.prob.home_win < out.prob.away_win

\* C30: for distinct teams X, Y and home_team one of them, the call with
\* (team_a, team_b) = (X, Y) returns the home_win, draw, away_win and
\* confidence that the call with (Y, X) returns.
C30_ArgumentOrder ==
    (/\ WinProbReturned
     /\ args.team_a # args.team_b
     /\ args.home_team \in {args.team_a, args.team_b}) =>
        out.prob \in calculate_win_probability(df, args.team_b, args.team_a,
                                               args.home_team)

\* The home team is named second and is the stronger side.
C30_Witness ==
    /\ WinProbReturned
    /\ args.team_a = "Arsenal" /\ args.team_b = "Liverpool"
    /\ args.home_team = "Liverpool"
    /\ Len(df) = 2
    /\ NumBetween(df, "Arsenal", "Liverpool") = 1
    /\ out.prob.home_win > out.prob.away_win + 100

\* C10 as claimed: called with team_a = team_b, get_head_to_head_stats and
\* calculate_win_probability signal an explicit error instead of returning.
C10_SamePairSignalsError ==
    (/\ op \in {"get_head_to_head_stats", "calculate_win_probability"}
     /\ args.team_a = args.team_b) =>
        exc = "ValueError"

\* C10 as amended: neither function compares team_a with team_b.  For an
\* equal pair get_head_to_head_stats returns the all-zero record with no
\* matches, and calculate_win_probability returns, whenever the table has a
\* row, confidence "Low", draw 25.0 and home_win + away_win within 0.1 of
\* 75.0; on a table without rows it ends with the KeyError of
\* calculate_standings, as for any other pair.
C10_SamePairReturnsResult ==
    args.team_a = args.team_b =>
        /\ op = "get_head_to_head_stats" => (exc = "none" /\ out.h2h = H2HZero)
        /\ op = "calculate_win_probability" =>
              /\ exc = (IF df = <<>> THEN "KeyError" ELSE "none")
              /\ exc = "none" =>
                    /\ out.prob.confidence = "Low"
                    /\ out.prob.draw = 250
                    /\ out.prob.home_win + out.prob.away_win \in 749..751

\* A prediction for a team against itself on a table in which it has played.
C10_Witness ==
    /\ WinProbReturned
    /\ args.team_a = "Arsenal" /\ args.team_b = "Arsenal"
    /\ args.home_team = "Arsenal"
    /\ ~InNoMatch(df, "Arsenal")
    /\ out.prob.home_win > out.prob.away_win

\* The matches of rows that name referee ref.
OfficiatedBy(rows, ref) == SelectSeq(rows, LAMBDA r : r.Referee = ref)

\* C23: get_referee_stats returns exactly one entry per distinct non-null
\* referee name; its Matches is the number of matches with that referee,
\* Yellow Cards and Red Cards are the sums of the home and away card
\* columns over those matches, and Cards/Match and Fouls/Match are
\* (yellow + red) / Matches and (home fouls + away fouls) / Matches, to the
\* two decimal places reported; matches without a referee are in no entry.
C23_OneEntryPerReferee ==
    op = "get_referee_stats" =>
        /\ exc = "none"
        /\ LET names == {df[i].Referee : i \in 1..Len(df)} \ {NoReferee}
               entries == out.referees
           IN  /\ Len(entries) = Cardinality(names)
               /\ {entries[k].Referee : k \in 1..Len(entries)} = names
               /\ \A k \in 1..Len(entries) :
                     LET e == entries[k]
                         ms == OfficiatedBy(df, e.Referee)
                     IN  /\ e.Matches = Len(ms)
                         /\ {"HY", "AY"} \subseteq columns =>
                               e.Yellow_Cards = ColSum(ms, "HY") + ColSum(ms, "AY")
                         /\ {"HR", "AR"} \subseteq columns =>
                               e.Red_Cards = ColSum(ms, "HR") + ColSum(ms, "AR")
                         /\ IsNearest(e.Cards_Match,
                                      (e.Yellow_Cards + e.Red_Cards) * 100,
                                      e.Matches)
                         /\ IsNearest(e.Fouls_Match,
                                      (ColSum(ms, "HF") + ColSum(ms, "AF")) * 100,
                                      e.Matches)

====
